---- MODULE Spec2Model ----
(***************************************************************************)
(* Model of oscWrench (src/main.go): the OSC address translator            *)
(* (parseMessage), the tracker store with its orientation-inversion        *)
(* correction (TrackerManager.processUpdates, GetTrackerData), the two     *)
(* buffered channels and the forwarder (forwardUpdatedData).               *)
(*                                                                         *)
(* float32 values are modelled by integers: every value used is a small    *)
(* whole number of degrees, on which float32 arithmetic is exact.          *)
(* Strings are sequences of one-character strings, so that strings.Split,  *)
(* strconv.Atoi, strings.Contains and fmt.Sprintf are computed.            *)
(***************************************************************************)
EXTENDS Integers, Sequences, FiniteSets, TLC

\* ------------------------------------------------------------------ bounds
\* Capacity of updateCh and of forwardCh (10000 in the source, scaled down).
QueueCap == 2
\* Number of accepted inbound messages in one behaviour.
MaxUpdates == 3
\* The same, in the specification of the address translator.
MaxParsed == 2
\* The same, in the specification of the stalled pipeline.
MaxStall == 6
\* Records the forwarder may take before it stops, in the specification of
\* the stalled forwarder.
MaxExtra == 1

\* --------------------------------------------------------------- constants
\* threshold := float32(170.0)
Threshold == 170

\* ------------------------------------------------------------------ values
Zero3 == <<0, 0, 0>>

\* TrackerData{} : the zero value of the struct.
ZeroData == [ID |-> 0, Position |-> Zero3, Rotation |-> Zero3]

Fields == {"ID", "Position", "Rotation"}

Abs(x) == IF x < 0 THEN -x ELSE x

\* ------------------------------------------------ orientation inversion
DetectAtLeast(old, new) == \E i \in 1..3 : Abs(old[i] - new[i]) >= Threshold

\* detectOrientationInversion: some axis differs by more than the threshold.
detectOrientationInversion(old, new) ==
    \E i \in 1..3 : Abs(old[i] - new[i]) > Threshold

InvertFirstAxisOnly(orientation) ==
    [i \in 1..3 |->
        IF i = 1
        THEN (IF orientation[i] + 180 > 180
              THEN orientation[i] + 180 - 360 ELSE orientation[i] + 180)
        ELSE orientation[i]]

InvertNoWrap(orientation) == [i \in 1..3 |-> orientation[i] + 180]

\* invertOrientation: every axis + 180, minus 360 when the sum exceeds 180.
invertOrientation(orientation) ==
    [i \in 1..3 |->
        IF orientation[i] + 180 > 180
        THEN orientation[i] + 180 - 360
        ELSE orientation[i] + 180]

\* ----------------------------------------------------------------- strings
Digits == <<"0", "1", "2", "3", "4", "5", "6", "7", "8", "9">>

IsDigit(c) == \E d \in 1..10 : Digits[d] = c

DigitVal(c) == (CHOOSE d \in 1..10 : Digits[d] = c) - 1

\* strings.Split(s, sep) for a one-character separator: the pieces between
\* the separators, empty pieces included.
RECURSIVE SplitFrom(_, _, _, _)
SplitFrom(s, sep, i, piece) ==
    IF i > Len(s) THEN <<piece>>
    ELSE IF s[i] = sep THEN <<piece>> \o SplitFrom(s, sep, i + 1, <<>>)
    ELSE SplitFrom(s, sep, i + 1, Append(piece, s[i]))

Split(s, sep) == SplitFrom(s, sep, 1, <<>>)

\* parts[i] with Go's 0-based index.
At(parts, i) == parts[i + 1]

\* strings.Contains(s, sub)
Contains(s, sub) ==
    \E i \in 1..(Len(s) - Len(sub) + 1) : SubSeq(s, i, i + Len(sub) - 1) = sub

RECURSIVE DigitsValue(_)
DigitsValue(s) ==
    IF Len(s) = 0 THEN 0
    ELSE 10 * DigitsValue(SubSeq(s, 1, Len(s) - 1)) + DigitVal(s[Len(s)])

\* strconv.Atoi(s): an optional sign, then one or more decimal digits.
Atoi(s) ==
    IF Len(s) > 0 /\ s[1] \in {"-", "+"}
    THEN LET body == SubSeq(s, 2, Len(s))
             ok == Len(body) > 0 /\ \A i \in 1..Len(body) : IsDigit(body[i])
         IN  IF ok
             THEN [val |-> IF s[1] = "-" THEN -DigitsValue(body) ELSE DigitsValue(body),
                   ok |-> TRUE]
             ELSE [val |-> 0, ok |-> FALSE]
    ELSE IF Len(s) > 0 /\ \A i \in 1..Len(s) : IsDigit(s[i])
    THEN [val |-> DigitsValue(s), ok |-> TRUE]
    ELSE [val |-> 0, ok |-> FALSE]

\* The %d verb of fmt.Sprintf.
RECURSIVE NatToString(_)
NatToString(n) ==
    IF n < 10 THEN <<Digits[n + 1]>>
    ELSE Append(NatToString(n \div 10), Digits[(n % 10) + 1])

Itoa(n) == IF n < 0 THEN <<"-">> \o NatToString(-n) ELSE NatToString(n)

StrTracking == <<"t", "r", "a", "c", "k", "i", "n", "g">>
StrTrackers == <<"t", "r", "a", "c", "k", "e", "r", "s">>
StrPosition == <<"p", "o", "s", "i", "t", "i", "o", "n">>
StrRotation == <<"r", "o", "t", "a", "t", "i", "o", "n">>
StrOther == <<"s", "c", "a", "l", "e">>
Slash == <<"/">>

\* ------------------------------------------------------------ osc.Message
Float32(v) == [type |-> "float32", val |-> v]
Int32(v) == [type |-> "int32", val |-> v]

Floats(vec) == <<Float32(vec[1]), Float32(vec[2]), Float32(vec[3])>>

Message(address, arguments) == [Address |-> address, Arguments |-> arguments]

\* fmt.Sprintf("/tracking/trackers/%d/<kind>", id)
TrackerAddress(id, kind) ==
    Slash \o StrTracking \o Slash \o StrTrackers \o Slash \o Itoa(id) \o Slash \o kind

\* ------------------------------------------------------------ parseMessage
Rejected == [data |-> ZeroData, ok |-> FALSE]

ParseMessageRotationFirst(msg) ==
    LET parts == Split(msg.Address, "/")
    IN  IF Len(parts) < 4 \/ At(parts, 1) # StrTracking \/ At(parts, 2) # StrTrackers
        THEN Rejected
        ELSE LET id == Atoi(At(parts, 3))
             IN  IF ~id.ok THEN Rejected
                 ELSE IF Len(msg.Arguments) # 3 THEN Rejected
                 ELSE IF \E i \in 1..3 : msg.Arguments[i].type # "float32" THEN Rejected
                 ELSE LET values == [i \in 1..3 |-> msg.Arguments[i].val]
                      IN  IF Contains(msg.Address, StrRotation)
                          THEN [data |-> [ID |-> id.val, Position |-> Zero3,
                                          Rotation |-> values], ok |-> TRUE]
                          ELSE IF Contains(msg.Address, StrPosition)
                          THEN [data |-> [ID |-> id.val, Position |-> values,
                                          Rotation |-> Zero3], ok |-> TRUE]
                          ELSE Rejected

\* parseMessage(msg) (TrackerData, bool)
parseMessage(msg) ==
    LET parts == Split(msg.Address, "/")
    IN  IF Len(parts) < 4 \/ At(parts, 1) # StrTracking \/ At(parts, 2) # StrTrackers
        THEN Rejected
        ELSE LET id == Atoi(At(parts, 3))
             IN  IF ~id.ok THEN Rejected
                 ELSE IF Len(msg.Arguments) # 3 THEN Rejected
                 ELSE IF \E i \in 1..3 : msg.Arguments[i].type # "float32" THEN Rejected
                 ELSE LET values == [i \in 1..3 |-> msg.Arguments[i].val]
                      IN  IF Contains(msg.Address, StrPosition)
                          THEN [data |-> [ID |-> id.val, Position |-> values,
                                          Rotation |-> Zero3], ok |-> TRUE]
                          ELSE IF Contains(msg.Address, StrRotation)
                          THEN [data |-> [ID |-> id.val, Position |-> Zero3,
                                          Rotation |-> values], ok |-> TRUE]
                          ELSE Rejected

\* ------------------------------------------------------------------ inputs
Producers == {"p1", "p2"}
Readers == {"r1"}
\* Ids a caller passes to GetTrackerData.
GetIds == {1, 2}

MalformedId ==
    Message(Slash \o StrTracking \o Slash \o StrTrackers \o Slash \o <<"x">>
              \o Slash \o StrPosition, Floats(<<1, 2, 3>>))

\* Messages the OSC server hands to the handler: two trackers, both kinds of
\* payload.
Inbound ==
    { Message(TrackerAddress(1, StrPosition), Floats(<<1, 2, 3>>)),
      Message(TrackerAddress(1, StrRotation), Floats(<<179, 0, 0>>)),
      Message(TrackerAddress(2, StrPosition), Floats(<<4, 5, 6>>)) }

\* Rotation payloads around the threshold, for one tracker.
InboundRot ==
    { Message(TrackerAddress(1, StrPosition), Floats(<<1, 2, 3>>)),
      Message(TrackerAddress(1, StrRotation), Floats(Zero3)),
      Message(TrackerAddress(1, StrRotation), Floats(<<10, 0, 0>>)),
      Message(TrackerAddress(1, StrRotation), Floats(<<179, 0, 0>>)),
      Message(TrackerAddress(1, StrRotation), Floats(<<170, -170, 170>>)),
      Message(TrackerAddress(1, StrRotation), Floats(<<0, 171, 180>>)) }

\* Two updates of one tracker, for filling the channels.
InboundStall ==
    { Message(TrackerAddress(1, StrPosition), Floats(<<1, 2, 3>>)),
      Message(TrackerAddress(1, StrRotation), Floats(<<10, 0, 0>>)) }

InboundOne ==
    { Message(TrackerAddress(1, StrRotation), Floats(<<10, 0, 0>>)) }

\* Address and argument shapes, for the translator.
Shapes ==
    { Message(TrackerAddress(1, StrPosition), Floats(<<1, 2, 3>>)),
      Message(TrackerAddress(12, StrRotation), Floats(<<10, 0, 0>>)),
      Message(TrackerAddress(-1, StrPosition), Floats(<<1, 2, 3>>)),
      Message(TrackerAddress(1, StrRotation \o Slash \o StrPosition), Floats(<<7, 8, 9>>)),
      Message(TrackerAddress(1, StrOther), Floats(<<1, 2, 3>>)),
      MalformedId,
      Message(Slash \o StrTracking \o Slash \o StrTrackers, Floats(<<1, 2, 3>>)),
      Message(TrackerAddress(1, StrRotation), <<Float32(179), Float32(0)>>),
      Message(TrackerAddress(1, StrRotation),
              <<Float32(1), Float32(2), Float32(3), Float32(4)>>),
      Message(TrackerAddress(1, StrPosition), <<Float32(1), Int32(2), Float32(3)>>) }

\* ------------------------------------------------------------------- state
NoData == [none |-> TRUE]

VARIABLES
    loopVar,    \* "shared": one `data` variable for the whole range loop
                \* (Go < 1.22); "perIteration": a fresh one each iteration
    trackers,   \* tm.trackers: id -> cell (*TrackerData)
    heap,       \* cell -> TrackerData; cell 0 is the shared loop variable
    cur,        \* the cell the worker's `data` names
    mu,         \* tm.mu: [w: writer holds it, r: readers holding it]
    updateCh,   \* tm.updateCh
    forwardCh,  \* tm.forwardCh
    pending,    \* producer -> update it is blocked sending, or NoData
    wpc,        \* worker position in processUpdates
    incoming,   \* the value received from updateCh in this iteration
    toWrite,    \* fields of the shared `data` not yet overwritten by it
    epc,        \* forwarder position in forwardUpdatedData
    edata,      \* the record the forwarder dequeued
    out,        \* client.Send calls made for edata: message and result
    rpc,        \* reader -> position in GetTrackerData
    rid,        \* reader -> id asked for
    rres,       \* reader -> value returned
    lastIn,     \* history: last message handled and whether it was accepted
    enq,        \* history: updates in the order they entered updateCh
    appliedLog, \* history: updates in the order the worker stored them
    fwdLog,     \* history: records in the order they entered forwardCh
    deqLog,     \* history: records in the order the forwarder dequeued them
    storedHist, \* history: id -> records a finished store step left under id
    lastStore   \* history: the last store step: the record looked up, the
                \* update as dequeued, the record stored

vars == <<loopVar, trackers, heap, cur, mu, updateCh, forwardCh, pending, wpc,
          incoming, toWrite, epc, edata, out, rpc, rid, rres, lastIn, enq,
          appliedLog, fwdLog, deqLog, storedHist, lastStore>>

storeVars == <<trackers, heap, cur, mu>>
workerVars == <<wpc, incoming, toWrite>>
emitterVars == <<epc, edata, out>>
readerVars == <<rpc, rid, rres>>
histVars == <<appliedLog, fwdLog, deqLog, storedHist, lastStore>>

\* NewTrackerManager, and main up to ListenAndServe.
Init ==
    /\ loopVar \in {"shared", "perIteration"}
    /\ trackers = <<>>
    /\ heap = (0 :> ZeroData)
    /\ cur = 0
    /\ mu = [w |-> FALSE, r |-> {}]
    /\ updateCh = <<>>
    /\ forwardCh = <<>>
    /\ pending = [p \in Producers |-> NoData]
    /\ wpc = "recv"
    /\ incoming = NoData
    /\ toWrite = {}
    /\ epc = "recv"
    /\ edata = NoData
    /\ out = <<>>
    /\ rpc = [r \in Readers |-> "idle"]
    /\ rid = [r \in Readers |-> 0]
    /\ rres = [r \in Readers |-> NoData]
    /\ lastIn = NoData
    /\ enq = <<>>
    /\ appliedLog = <<>>
    /\ fwdLog = <<>>
    /\ deqLog = <<>>
    /\ storedHist = <<>>
    /\ lastStore = NoData

\* ---------------------------------------------------------------- channels
ChanFullOffByOne(ch) == Len(ch) > QueueCap

\* A send on a buffered channel blocks while the buffer holds cap(ch) items.
ChanFull(ch) == Len(ch) >= QueueCap

ChanPushFront(ch, x) == <<x>> \o ch

\* ch <- x
ChanSend(ch, x) == Append(ch, x)

\* ------------------------------------------------------------------ handler
\* Lines 138-142 of the handler: the update it passes to UpdateTracker, if any.
Translate(msg) ==
    IF Contains(msg.Address, StrTracking) THEN parseMessage(msg) ELSE Rejected

\* Translate, tabulated over the messages of the model.
Translated ==
    [msg \in Inbound \cup InboundRot \cup InboundStall \cup Shapes |-> Translate(msg)]

InFlight == Len(enq) + Cardinality({q \in Producers : pending[q] # NoData})

\* The dispatcher's handler (main), up to the call of UpdateTracker.
HandleMessage(p, msg) ==
    /\ pending[p] = NoData
    /\ lastIn' = [msg |-> msg, ok |-> Translated[msg].ok]
    /\ IF Translated[msg].ok
       THEN pending' = [pending EXCEPT ![p] = Translated[msg].data]
       ELSE UNCHANGED pending
    /\ UNCHANGED <<loopVar, storeVars, updateCh, forwardCh, workerVars, emitterVars,
                   readerVars, enq, histVars>>

\* The server delivers msg to the handler; `budget` bounds the updates of a
\* behaviour.
Dispatch(p, msg, budget) ==
    /\ Translated[msg].ok => InFlight < budget
    /\ HandleMessage(p, msg)

\* UpdateTracker: tm.updateCh <- data, which blocks while the channel is full.
UpdateTracker(p) ==
    /\ pending[p] # NoData
    /\ ~ChanFull(updateCh)
    /\ updateCh' = ChanSend(updateCh, pending[p])
    /\ enq' = Append(enq, pending[p])
    /\ pending' = [pending EXCEPT ![p] = NoData]
    /\ UNCHANGED <<loopVar, storeVars, forwardCh, workerVars, emitterVars,
                   readerVars, lastIn, histVars>>

RawData == incoming

\* ------------------------------------------------------------------ worker
\* The value of `data`, the loop variable of processUpdates.
Data == heap[cur]

\* *tm.trackers[id]
Deref(trk, hp, id) == hp[trk[id]]

Live(trk, c) == {trk[id] : id \in DOMAIN trk} \cup {c, 0}

\* `for data := range tm.updateCh`: take the head of updateCh.  With a
\* per-iteration loop variable the value goes into a fresh variable nobody
\* else can reach; with the shared one it overwrites, field by field and
\* without tm.mu, the variable every stored pointer names (WorkerCopy).
WorkerRecv ==
    /\ wpc = "recv"
    /\ Len(updateCh) > 0
    /\ updateCh' = Tail(updateCh)
    /\ incoming' = Head(updateCh)
    /\ IF loopVar = "perIteration"
       THEN /\ cur' = Len(appliedLog) + 1
            /\ heap' = [c \in (DOMAIN heap \cup {cur'}) |->
                           IF c = cur' THEN Head(updateCh) ELSE heap[c]]
            /\ toWrite' = {}
            /\ wpc' = "lock"
       ELSE /\ toWrite' = Fields
            /\ wpc' = "copy"
            /\ UNCHANGED <<cur, heap>>
    /\ UNCHANGED <<loopVar, trackers, mu, forwardCh, pending, emitterVars, readerVars,
                   lastIn, enq, histVars>>

WorkerCopy(f) ==
    /\ wpc = "copy"
    /\ f \in toWrite
    /\ heap' = [heap EXCEPT ![cur][f] = incoming[f]]
    /\ toWrite' = toWrite \ {f}
    /\ wpc' = IF toWrite' = {} THEN "lock" ELSE "copy"
    /\ UNCHANGED <<loopVar, trackers, cur, mu, updateCh, forwardCh, pending, incoming,
                   emitterVars, readerVars, lastIn, enq, histVars>>

\* tm.mu.Lock()
WorkerLock ==
    /\ wpc = "lock"
    /\ ~mu.w /\ mu.r = {}
    /\ mu' = [mu EXCEPT !.w = TRUE]
    /\ wpc' = "store"
    /\ UNCHANGED <<loopVar, trackers, heap, cur, updateCh, forwardCh, pending, incoming,
                   toWrite, emitterVars, readerVars, lastIn, enq, histVars>>

StoredRotationNoExistsCheck(trk, hp, d) ==
    LET prev == IF d.ID \in DOMAIN trk THEN Deref(trk, hp, d.ID).Rotation ELSE Zero3
    IN  IF detectOrientationInversion(prev, d.Rotation)
        THEN invertOrientation(d.Rotation)
        ELSE d.Rotation

\* Lines 45-49: the rotation `data` carries when it is stored.
StoredRotation(trk, hp, d) ==
    IF d.ID \in DOMAIN trk
    THEN IF detectOrientationInversion(Deref(trk, hp, d.ID).Rotation, d.Rotation)
         THEN invertOrientation(d.Rotation)
         ELSE d.Rotation
    ELSE d.Rotation

\* Lines 45-50, under tm.mu: correct data.Rotation, then
\* tm.trackers[data.ID] = &data.  Cells nothing points to any more are
\* dropped (garbage collection).
WorkerStore ==
    /\ wpc = "store"
    /\ LET rot == StoredRotation(trackers, heap, Data)
           hp == [heap EXCEPT ![cur].Rotation = rot]
           trk == [id \in (DOMAIN trackers \cup {Data.ID}) |->
                      IF id = Data.ID THEN cur ELSE trackers[id]]
       IN  /\ trackers' = trk
           /\ heap' = [c \in (DOMAIN hp \cap Live(trk, cur)) |-> hp[c]]
           /\ storedHist' = [id \in (DOMAIN storedHist \cup {Data.ID}) |->
                                IF id = Data.ID
                                THEN (IF id \in DOMAIN storedHist
                                      THEN storedHist[id] ELSE {}) \cup {hp[cur]}
                                ELSE storedHist[id]]
    /\ lastStore' = [exists |-> Data.ID \in DOMAIN trackers,
                     prev |-> IF Data.ID \in DOMAIN trackers
                              THEN Deref(trackers, heap, Data.ID) ELSE ZeroData,
                     raw |-> incoming,
                     stored |-> Deref(trackers', heap', Data.ID)]
    /\ appliedLog' = Append(appliedLog, incoming)
    /\ wpc' = "unlock"
    /\ UNCHANGED <<loopVar, cur, mu, updateCh, forwardCh, pending, incoming, toWrite,
                   emitterVars, readerVars, lastIn, enq, fwdLog, deqLog>>

WorkerUnlockSkipped ==
    /\ wpc = "unlock"
    /\ mu' = mu
    /\ wpc' = "send"
    /\ UNCHANGED <<loopVar, trackers, heap, cur, updateCh, forwardCh, pending, incoming,
                   toWrite, emitterVars, readerVars, lastIn, enq, histVars>>

\* tm.mu.Unlock()
WorkerUnlock ==
    /\ wpc = "unlock"
    /\ mu' = [mu EXCEPT !.w = FALSE]
    /\ wpc' = "send"
    /\ UNCHANGED <<loopVar, trackers, heap, cur, updateCh, forwardCh, pending, incoming,
                   toWrite, emitterVars, readerVars, lastIn, enq, histVars>>

WorkerSendUnstored ==
    /\ wpc \in {"lock", "send"}
    /\ ~ChanFull(forwardCh)
    /\ forwardCh' = ChanSend(forwardCh, Data)
    /\ fwdLog' = Append(fwdLog, Data)
    /\ wpc' = "recv"
    /\ UNCHANGED <<loopVar, storeVars, updateCh, pending, incoming, toWrite,
                   emitterVars, readerVars, lastIn, enq, appliedLog, deqLog, storedHist,
                   lastStore>>

\* tm.forwardCh <- data
WorkerSend ==
    /\ wpc = "send"
    /\ ~ChanFull(forwardCh)
    /\ forwardCh' = ChanSend(forwardCh, Data)
    /\ fwdLog' = Append(fwdLog, Data)
    /\ wpc' = "recv"
    /\ UNCHANGED <<loopVar, storeVars, updateCh, pending, incoming, toWrite,
                   emitterVars, readerVars, lastIn, enq, appliedLog, deqLog, storedHist,
                   lastStore>>

\* --------------------------------------------------------------- forwarder
\* `for data := range forwardCh`
EmitRecv ==
    /\ epc = "recv"
    /\ Len(forwardCh) > 0
    /\ edata' = Head(forwardCh)
    /\ forwardCh' = Tail(forwardCh)
    /\ deqLog' = Append(deqLog, Head(forwardCh))
    /\ out' = <<>>
    /\ epc' = "position"
    /\ UNCHANGED <<loopVar, storeVars, updateCh, pending, workerVars, readerVars,
                   lastIn, enq, appliedLog, fwdLog, storedHist, lastStore>>

SendsAlways(vec) == TRUE

\* data.Position != [3]float32{}
NonZero(vec) == vec # Zero3

RetryOnFailure(stage, ok) ==
    IF ~ok THEN stage ELSE IF stage = "position" THEN "rotation" ELSE "recv"

\* Where the forwarder goes after client.Send returned: the error is logged.
AfterSend(stage, ok) == IF stage = "position" THEN "rotation" ELSE "recv"

\* Lines 172-181: the position message.
EmitPosition(ok) ==
    /\ epc = "position"
    /\ IF NonZero(edata.Position)
       THEN /\ out' = Append(out, [msg |-> Message(TrackerAddress(edata.ID, StrPosition),
                                                   Floats(edata.Position)),
                                   ok |-> ok])
            /\ epc' = AfterSend("position", ok)
       ELSE /\ ok
            /\ epc' = "rotation"
            /\ UNCHANGED out
    /\ UNCHANGED <<loopVar, storeVars, updateCh, forwardCh, pending, workerVars, edata,
                   readerVars, lastIn, enq, histVars>>

\* Lines 184-193: the rotation message.
EmitRotation(ok) ==
    /\ epc = "rotation"
    /\ IF NonZero(edata.Rotation)
       THEN /\ out' = Append(out, [msg |-> Message(TrackerAddress(edata.ID, StrRotation),
                                                   Floats(edata.Rotation)),
                                   ok |-> ok])
            /\ epc' = AfterSend("rotation", ok)
       ELSE /\ ok
            /\ epc' = "recv"
            /\ UNCHANGED out
    /\ UNCHANGED <<loopVar, storeVars, updateCh, forwardCh, pending, workerVars, edata,
                   readerVars, lastIn, enq, histVars>>

\* ---------------------------------------------------------- GetTrackerData
\* tm.mu.RLock()
GetRLock(r, id) ==
    /\ rpc[r] = "idle"
    /\ ~mu.w
    /\ mu' = [mu EXCEPT !.r = @ \cup {r}]
    /\ rpc' = [rpc EXCEPT ![r] = "rlocked"]
    /\ rid' = [rid EXCEPT ![r] = id]
    /\ UNCHANGED <<rres, loopVar, trackers, heap, cur, updateCh, forwardCh, pending,
                   workerVars, emitterVars, lastIn, enq, histVars>>

\* Lines 64-67: the lookup and the copy of *tracker.
GetRead(r) ==
    /\ rpc[r] = "rlocked"
    /\ rres' = [rres EXCEPT ![r] =
                   IF rid[r] \in DOMAIN trackers
                   THEN [data |-> Deref(trackers, heap, rid[r]), found |-> TRUE]
                   ELSE [data |-> ZeroData, found |-> FALSE]]
    /\ rpc' = [rpc EXCEPT ![r] = "read"]
    /\ UNCHANGED <<loopVar, storeVars, updateCh, forwardCh, pending, workerVars,
                   emitterVars, rid, lastIn, enq, histVars>>

\* The deferred tm.mu.RUnlock(), and the return: the caller takes the value.
GetRUnlock(r) ==
    /\ rpc[r] = "read"
    /\ mu' = [mu EXCEPT !.r = @ \ {r}]
    /\ rpc' = [rpc EXCEPT ![r] = "idle"]
    /\ rid' = [rid EXCEPT ![r] = 0]
    /\ rres' = [rres EXCEPT ![r] = NoData]
    /\ UNCHANGED <<loopVar, trackers, heap, cur, updateCh, forwardCh, pending,
                   workerVars, emitterVars, lastIn, enq, histVars>>

\* ----------------------------------------------------------- specification
\* Everything downstream of the handler.
Pipeline ==
    \/ \E p \in Producers : UpdateTracker(p)
    \/ WorkerRecv
    \/ \E f \in Fields : WorkerCopy(f)
    \/ WorkerLock
    \/ WorkerStore
    \/ WorkerUnlock
    \/ WorkerSend
    \/ EmitRecv
    \/ \E ok \in BOOLEAN : EmitPosition(ok)
    \/ \E ok \in BOOLEAN : EmitRotation(ok)

Reads ==
    \/ \E r \in Readers, id \in GetIds : GetRLock(r, id)
    \/ \E r \in Readers : GetRead(r)
    \/ \E r \in Readers : GetRUnlock(r)

\* The whole program: concurrent handlers, the worker, the forwarder and
\* callers of GetTrackerData.
Next ==
    \/ \E p \in Producers, msg \in Inbound : Dispatch(p, msg, MaxUpdates)
    \/ Pipeline
    \/ Reads

Spec == Init /\ [][Next]_vars

\* One handler at a time, rotation payloads around the threshold.
NextRot ==
    \/ \E msg \in InboundRot : Dispatch("p1", msg, MaxUpdates)
    \/ Pipeline

SpecRot == Init /\ [][NextRot]_vars

\* One handler at a time, every address and argument shape.
NextParse ==
    \/ \E msg \in Shapes : Dispatch("p1", msg, MaxParsed)
    \/ Pipeline

SpecParse == Init /\ [][NextParse]_vars

\* Enough updates of one tracker to fill both channels.
NextStall ==
    \/ \E p \in Producers, msg \in InboundStall : Dispatch(p, msg, MaxStall)
    \/ Pipeline

SpecStall == Init /\ [][NextStall]_vars

\* The worker goroutine, `go tm.processUpdates()`.
Worker ==
    \/ WorkerRecv
    \/ \E f \in Fields : WorkerCopy(f)
    \/ WorkerLock
    \/ WorkerStore
    \/ WorkerUnlock
    \/ WorkerSend

\* Updates that fill both channels, the worker's hands and every handler,
\* and MaxExtra more.
StallBudget == 2 * QueueCap + 1 + Cardinality(Producers) + MaxExtra

\* Handlers that keep submitting, a worker that runs, and a forwarder that
\* may stop at any time.
NextStalled ==
    \/ \E p \in Producers, msg \in InboundOne : Dispatch(p, msg, StallBudget)
    \/ Pipeline

SpecStalled ==
    /\ Init /\ [][NextStalled]_vars
    /\ WF_vars(Worker)
    /\ \A p \in Producers :
          /\ WF_vars(UpdateTracker(p))
          /\ WF_vars(\E msg \in InboundOne : Dispatch(p, msg, StallBudget))

\* ------------------------------------------------------------------ claims
Stored == lastStore # NoData

\* Index in appliedLog of the update applied before the last one to the same id.
PrevSameId(k) ==
    LET js == {j \in 1..(k - 1) : appliedLog[j].ID = appliedLog[k].ID}
    IN  IF js = {} THEN 0 ELSE CHOOSE j \in js : \A i \in js : i <= j

Wrap(x) == IF x + 180 > 180 THEN x + 180 - 360 ELSE x + 180

\* C1: a rotation-only update applied after a position-only update of the
\* same id leaves a stored record with the position of the first and the
\* rotation of the second, and a position-only update applied after a
\* rotation-only one keeps that rotation.
C1_MergeOntoPrevious ==
    Stored =>
        LET k == Len(appliedLog)
            j == PrevSameId(k)
        IN  j > 0 =>
              /\ (lastStore.raw.Position = Zero3 /\ appliedLog[j].Position # Zero3)
                    => lastStore.stored.Position = appliedLog[j].Position
              /\ (lastStore.raw.Rotation = Zero3 /\ lastStore.raw.Position # Zero3)
                    => lastStore.stored.Rotation = lastStore.prev.Rotation

LooksUpZeroGets179 ==
    /\ Stored /\ lastStore.exists
    /\ lastStore.prev.Rotation = Zero3
    /\ lastStore.raw.Rotation = <<179, 0, 0>>

C4_FirstUpdateUnchanged ==
    /\ (Stored /\ ~lastStore.exists) => lastStore.stored = lastStore.raw
    /\ \A k \in 1..Len(fwdLog) : PrevSameId(k) = 0 => fwdLog[k] = appliedLog[k]

C4_Witness ==
    /\ Stored /\ ~lastStore.exists
    /\ lastStore.raw.Rotation = <<179, 0, 0>>
    /\ lastStore.stored.Rotation = <<179, 0, 0>>
    /\ Len(fwdLog) = 1 /\ fwdLog[1].Rotation = <<179, 0, 0>>

IsPrefix(a, b) == Len(a) <= Len(b) /\ a = SubSeq(b, 1, Len(a))

\* The record of update u, with its rotation as received or corrected.
RecordOf(rec, u) ==
    /\ rec.ID = u.ID
    /\ rec.Position = u.Position
    /\ rec.Rotation \in {u.Rotation,
                         <<Wrap(u.Rotation[1]), Wrap(u.Rotation[2]), Wrap(u.Rotation[3])>>}

\* C5: the updates applied, the records put on forwardCh and the records the
\* forwarder took are, in order, those of a prefix of the enqueue sequence.
C5_FifoOrder ==
    /\ IsPrefix(appliedLog, enq)
    /\ Len(fwdLog) <= Len(appliedLog)
    /\ \A i \in 1..Len(fwdLog) : RecordOf(fwdLog[i], enq[i])
    /\ IsPrefix(deqLog, fwdLog)

C5_Witness ==
    /\ Len(deqLog) = 3
    /\ enq[1] # enq[2] /\ enq[2] # enq[3] /\ enq[1] # enq[3]
    /\ enq[1].ID = enq[3].ID

\* C6: a value GetTrackerData(id) returns with found = true is a record that
\* one finished store step stored under id, and carries that id.
C6_GetReturnsAStoredRecord ==
    \A r \in Readers :
        (rpc[r] = "read" /\ rres[r].found) =>
            /\ rres[r].data.ID = rid[r]
            /\ rid[r] \in DOMAIN storedHist
            /\ rres[r].data \in storedHist[rid[r]]

InHand == IF wpc \in {"copy", "lock", "store"} THEN <<incoming>> ELSE <<>>

\* C7: neither channel holds more than its capacity, a blocked producer
\* keeps its update, and every update that entered updateCh is applied, in
\* the worker's hands or still in updateCh; every record put on forwardCh
\* was taken by the forwarder or is still there; the worker holds at most
\* one record not yet forwarded, and takes nothing while it waits to send.
C7_BackPressureNoLoss ==
    /\ Len(updateCh) <= QueueCap
    /\ Len(forwardCh) <= QueueCap
    /\ enq = appliedLog \o InHand \o updateCh
    /\ fwdLog = deqLog \o forwardCh
    /\ Len(appliedLog) = Len(fwdLog) + (IF wpc \in {"unlock", "send"} THEN 1 ELSE 0)
    /\ \A p \in Producers :
          (pending[p] # NoData /\ Len(updateCh) = QueueCap) => ~ENABLED UpdateTracker(p)
    /\ (wpc = "send" /\ Len(forwardCh) = QueueCap) => ~ENABLED (WorkerSend \/ WorkerRecv)

C7_Witness ==
    /\ wpc = "send" /\ Len(forwardCh) = QueueCap
    /\ Len(updateCh) = QueueCap
    /\ \E p \in Producers : pending[p] # NoData

Attempted == [i \in 1..Len(out) |-> out[i].msg]

PositionMessage(rec) ==
    Message(Slash \o StrTracking \o Slash \o StrTrackers \o Slash \o Itoa(rec.ID)
              \o Slash \o StrPosition,
            <<Float32(rec.Position[1]), Float32(rec.Position[2]), Float32(rec.Position[3])>>)

RotationMessage(rec) ==
    Message(Slash \o StrTracking \o Slash \o StrTrackers \o Slash \o Itoa(rec.ID)
              \o Slash \o StrRotation,
            <<Float32(rec.Rotation[1]), Float32(rec.Rotation[2]), Float32(rec.Rotation[3])>>)

\* C8: for a record the forwarder has finished, the messages sent are the
\* position message if and only if the position is not (0,0,0), followed by
\* the rotation message if and only if the rotation is not (0,0,0).
C8_EmitsNonZeroFieldsOnly ==
    (epc = "recv" /\ edata # NoData) =>
        Attempted =
            (IF edata.Position # Zero3 THEN <<PositionMessage(edata)>> ELSE <<>>)
            \o (IF edata.Rotation # Zero3 THEN <<RotationMessage(edata)>> ELSE <<>>)

C8_Witness ==
    /\ epc = "recv" /\ edata # NoData
    /\ edata.Position = Zero3 /\ edata.Rotation = Zero3
    /\ out = <<>>
    /\ \E i \in 1..Len(deqLog) : deqLog[i].Position # Zero3

FailedSend == Len(out') = Len(out) + 1 /\ ~out'[Len(out')].ok

\* C9: a send that fails changes neither the channels nor the store nor the
\* producers, is not repeated, and the forwarder goes on: from the position
\* message to the rotation message, from the rotation message to the next
\* record.
C9_SendFailureIgnored ==
    [][FailedSend =>
          /\ UNCHANGED <<updateCh, forwardCh, trackers, heap, pending, wpc, edata>>
          /\ SubSeq(out', 1, Len(out)) = out
          /\ epc' = (IF epc = "position" THEN "rotation" ELSE "recv")]_vars

C9_Witness ==
    /\ Len(out) = 2
    /\ ~out[1].ok
    /\ out[2].msg = RotationMessage(edata)
    /\ epc = "recv"
    /\ Len(appliedLog) > Len(deqLog)

AllDigits(seg) == Len(seg) > 0 /\ \A i \in 1..Len(seg) : IsDigit(seg[i])

WellFormed(msg) ==
    LET parts == Split(msg.Address, "/")
    IN  /\ Len(parts) >= 4
        /\ parts[2] = StrTracking
        /\ parts[3] = StrTrackers
        /\ AllDigits(parts[4])
        /\ Len(msg.Arguments) = 3
        /\ \A i \in 1..3 : msg.Arguments[i].type = "float32"

\* C10: a message is accepted only if its address is
\* /tracking/trackers/<non-negative integer>/... and it has exactly 3
\* arguments, all float32; any other message is rejected and leaves the
\* producer with nothing to enqueue.
C10_AcceptsOnlyWellFormed ==
    lastIn # NoData =>
        /\ lastIn.ok => WellFormed(lastIn.msg)
        /\ ~WellFormed(lastIn.msg) => pending["p1"] = NoData

HasSubstring(address, word) ==
    \E i \in 1..Len(address) :
        /\ i + Len(word) - 1 <= Len(address)
        /\ \A k \in 1..Len(word) : address[i + k - 1] = word[k]

ArgumentValues(msg) == <<msg.Arguments[1].val, msg.Arguments[2].val, msg.Arguments[3].val>>

\* C11: the update of an accepted message has the id written in the address
\* and the 3 argument values in exactly one field, the other being (0,0,0):
\* Position when the address contains "position" (also next to "rotation"),
\* else Rotation when it contains "rotation"; with neither the message is
\* rejected.
C11_OneFieldPositionFirst ==
    /\ (lastIn # NoData /\ lastIn.ok) =>
          \/ HasSubstring(lastIn.msg.Address, StrPosition)
          \/ HasSubstring(lastIn.msg.Address, StrRotation)
    /\ pending["p1"] # NoData =>
          /\ lastIn.ok
          /\ Itoa(pending["p1"].ID) = Split(lastIn.msg.Address, "/")[4]
          /\ IF HasSubstring(lastIn.msg.Address, StrPosition)
             THEN /\ pending["p1"].Position = ArgumentValues(lastIn.msg)
                  /\ pending["p1"].Rotation = Zero3
             ELSE /\ pending["p1"].Rotation = ArgumentValues(lastIn.msg)
                  /\ pending["p1"].Position = Zero3

C11_Witness ==
    /\ pending["p1"] # NoData
    /\ HasSubstring(lastIn.msg.Address, StrPosition)
    /\ HasSubstring(lastIn.msg.Address, StrRotation)
    /\ pending["p1"].Position = <<7, 8, 9>>
    /\ pending["p1"].Rotation = Zero3

\* C12: a position-only update applied to an id that has a record leaves the
\* stored (and forwarded) rotation of that id as the previous update of the
\* id stored it; no corrected rotation is placed in the record.
C12_PositionUpdateKeepsRotation ==
    (Stored /\ lastStore.exists
            /\ lastStore.raw.Rotation = Zero3 /\ lastStore.raw.Position # Zero3)
        => /\ lastStore.stored.Rotation = lastStore.prev.Rotation
           /\ lastStore.prev.Rotation # <<180, 180, 180>>
                 => /\ lastStore.stored.Rotation # <<180, 180, 180>>
                    /\ fwdLog # <<>> => fwdLog[Len(fwdLog)].Rotation # <<180, 180, 180>>

\* C13: the record put on forwardCh for an update is the record its store
\* step stored under the id (with the corrected rotation when one was made),
\* and the records waiting in forwardCh stay as they were put there while
\* later updates are stored.
C13_ForwardedIsStoredRecord ==
    /\ (wpc \in {"recv", "copy", "lock", "store"} /\ fwdLog # <<>>)
          => fwdLog[Len(fwdLog)] = lastStore.stored
    /\ \A i \in 1..Len(fwdLog) : fwdLog[i] \in storedHist[fwdLog[i].ID]
    /\ fwdLog = deqLog \o forwardCh

C13_Witness ==
    /\ Len(forwardCh) > 0
    /\ Len(appliedLog) = Len(deqLog) + Len(forwardCh) + 1
    /\ forwardCh[Len(forwardCh)].Rotation = <<-1, 180, 180>>
    /\ appliedLog[Len(appliedLog) - 1].Rotation = <<179, 0, 0>>
    /\ lastStore.raw.ID = forwardCh[Len(forwardCh)].ID
    /\ lastStore.stored # forwardCh[Len(forwardCh)]
    /\ wpc = "unlock"

\* Number of updates whose store step is over and whose tm.mu.Unlock() is done.
Completed == Len(appliedLog) - (IF wpc = "unlock" THEN 1 ELSE 0)

\* C14: every record in forwardCh or taken from it by the forwarder is the
\* record of an update that is already stored and whose write lock has been
\* released; while the worker holds the lock, the update it is storing has
\* not been forwarded.
C14_ForwardedAfterOwnStore ==
    /\ Len(deqLog) + Len(forwardCh) <= Completed
    /\ \A i \in 1..(Len(deqLog) + Len(forwardCh)) :
          RecordOf((deqLog \o forwardCh)[i], appliedLog[i])
    /\ mu.w => Len(deqLog) + Len(forwardCh) = Len(enq) - Len(updateCh) - 1

C14_Witness ==
    /\ wpc = "unlock" /\ mu.w
    /\ Len(forwardCh) > 0 /\ Len(deqLog) > 0
    /\ Len(deqLog) + Len(forwardCh) = Len(appliedLog) - 1

\* C15: the record under each key of tm.trackers carries that key as its ID
\* and is a record a store step stored under that key; the record of the last
\* store step stays as stored while the worker takes later updates; an id
\* that was stored once stays a key of the map.
C15_EntriesIndependentAndPermanent ==
    /\ DOMAIN trackers = DOMAIN storedHist
    /\ \A id \in DOMAIN trackers :
          /\ Deref(trackers, heap, id).ID = id
          /\ Deref(trackers, heap, id) \in storedHist[id]
    /\ Stored => Deref(trackers, heap, lastStore.stored.ID) = lastStore.stored

\* forwardCh is full with the worker waiting to send, updateCh is full and
\* every handler waits in UpdateTracker.
Stalled ==
    /\ Len(forwardCh) = QueueCap /\ wpc = "send"
    /\ Len(updateCh) = QueueCap
    /\ \A p \in Producers : pending[p] # NoData

\* C16: when the forwarder stops taking records (it takes no more than
\* MaxExtra) while handlers keep submitting, the program comes to stay in a
\* state with forwardCh full, the worker waiting to send, updateCh full and
\* every handler waiting in UpdateTracker; from such a state every step that
\* is not the forwarder taking a record leaves the store, both channels and
\* the waiting handlers as they are.
C16_StalledEmitterStallsAll ==
    /\ [][(Stalled /\ deqLog' = deqLog)
             => /\ Stalled'
                /\ UNCHANGED <<trackers, heap, updateCh, forwardCh, pending, appliedLog>>]_vars
    /\ (<>(Len(deqLog) > MaxExtra)) \/ <>[]Stalled

C16_Witness ==
    /\ Stalled
    /\ Len(deqLog) = MaxExtra
    /\ Len(appliedLog) = Len(deqLog) + QueueCap + 1

\* C17: the worker holds the write lock only in the store step and up to its
\* Unlock, never while it waits on updateCh or forwardCh, and those two steps
\* are never blocked; a caller of GetTrackerData can take the read lock
\* whenever the worker is at a channel operation (also with forwardCh full),
\* and once it holds it, its read and its RUnlock are never blocked; when
\* the worker waits for the lock, a reader that holds it can go on.
C17_LockNotHeldWhileBlocked ==
    /\ mu.w => (wpc \in {"store", "unlock"} /\ mu.r = {})
    /\ wpc = "store" => ENABLED WorkerStore
    /\ wpc = "unlock" => ENABLED WorkerUnlock
    /\ \A r \in Readers :
          /\ (rpc[r] = "idle" /\ wpc \in {"recv", "copy", "send"})
                => \A id \in GetIds : ENABLED GetRLock(r, id)
          /\ rpc[r] = "rlocked" => (r \in mu.r /\ ENABLED GetRead(r))
          /\ rpc[r] = "read" => (r \in mu.r /\ ENABLED GetRUnlock(r))
    /\ (wpc = "lock" /\ ~ENABLED WorkerLock)
          => \E r \in Readers : ENABLED (GetRead(r) \/ GetRUnlock(r))

C17_Witness ==
    /\ wpc = "send" /\ Len(forwardCh) = QueueCap
    /\ ~ENABLED WorkerSend
    /\ rpc["r1"] = "read" /\ rres["r1"].found

\* Every component in (-180, 180].
InRange(vec) == \A i \in 1..3 : vec[i] > -180 /\ vec[i] <= 180

\* invertOrientation on every whole number of degrees of the range.
InvertKeepsRange ==
    \A x \in -179..180, y \in {-179, 0, 180} :
        InRange(invertOrientation(<<x, y, x>>))

\* C18: when every rotation component of every update received lies in
\* (-180, 180], so does every rotation component of every record in the
\* store and of every record put on forwardCh; the correction maps the
\* range into itself.
C18_RotationsStayInRange ==
    (\A i \in 1..Len(enq) : InRange(enq[i].Rotation)) =>
        /\ \A id \in DOMAIN trackers : InRange(Deref(trackers, heap, id).Rotation)
        /\ \A i \in 1..Len(fwdLog) : InRange(fwdLog[i].Rotation)
        /\ InvertKeepsRange

C18_Witness ==
    /\ Len(fwdLog) = 2
    /\ enq[2].Rotation = <<170, -170, 170>>
    /\ fwdLog[2].Rotation = <<-10, 10, -10>>
    /\ Deref(trackers, heap, 1).Rotation = <<-10, 10, -10>>

\* Every update submitted so far went through both channels and nothing is
\* in the hands of a handler, the worker or the forwarder.
Drained ==
    /\ enq # <<>>
    /\ \A p \in Producers : pending[p] = NoData
    /\ updateCh = <<>> /\ forwardCh = <<>>
    /\ wpc = "recv" /\ epc = "recv"
    /\ Len(deqLog) = Len(enq)

\* The last update submitted for id.
LastFor(id) ==
    LET js == {j \in 1..Len(enq) : enq[j].ID = id}
    IN  enq[CHOOSE j \in js : \A i \in js : i <= j]

\* C19: once the updates submitted are all applied and taken by the
\* forwarder, with both channels empty, the store holds under each id
\* submitted the record of the last update submitted for that id.
C19_DrainedStoreHoldsLastUpdates ==
    Drained =>
        \A id \in {enq[j].ID : j \in 1..Len(enq)} :
            /\ id \in DOMAIN trackers
            /\ RecordOf(Deref(trackers, heap, id), LastFor(id))
====
